---- MODULE Spec2Model ----
(***************************************************************************)
(* Model of scripts/sheet_monitor.py: SheetMonitor polls column A of a     *)
(* sheet and creates one tracker issue per identifier it has not seen.     *)
(* The state file and the tracker are shared; every invocation of the      *)
(* script is a process with its own locals.                                *)
(***************************************************************************)
EXTENDS Integers, Sequences, FiniteSets, TLC

\* ------------------------------------------------------------------ bounds
MaxIssues == 2        \* the script is started while no title has this many issues
MaxRows == 3          \* rows of the sheet's column A, header included

\* --------------------------------------------------------------- constants
HTTP_OK == 200
HTTP_CREATED == 201

Procs == {1, 2}

\* Strings are sequences of characters.
P1 == <<"P", "1">>
P10 == <<"P", "1", "0">>
Ids == {P1, P10}

\* Raw cells of column A: blank, and identifiers with and without padding.
RawCells == {<<" ">>, P1, <<" ">> \o P1 \o <<" ">>, P10}
Rows == {<< >>} \cup {<<c>> : c \in RawCells}
Sheets == UNION {[1..n -> Rows] : n \in 0..MaxRows}

\* 'Paper Review: '
TitlePrefix ==
  <<"P", "a", "p", "e", "r", " ", "R", "e", "v", "i", "e", "w", ":", " ">>

\* title of the issue that _create_github_issue posts
Title(paper_id) == TitlePrefix \o paper_id

\* a check that wants the whole title to be the identifier's title
ContainsAnchored(sub, text) == text = TitlePrefix \o sub

\* Python: sub in text
Contains(sub, text) ==
  \E i \in 0..(Len(text) - Len(sub)) : SubSeq(text, i + 1, i + Len(sub)) = sub

\* Python: str.strip()
RECURSIVE LStrip(_)
LStrip(s) == IF s # << >> /\ Head(s) = " " THEN LStrip(Tail(s)) ELSE s

RECURSIVE RStrip(_)
RStrip(s) ==
  IF s # << >> /\ s[Len(s)] = " " THEN RStrip(SubSeq(s, 1, Len(s) - 1)) ELSE s

Strip(s) == RStrip(LStrip(s))

Range(s) == {s[i] : i \in 1..Len(s)}

\* ------------------------------------------------------------ the tracker
\* tracker[x] is the number of issues titled Title(x).
TrackerTitles(tr) == {Title(x) : x \in {y \in Ids : tr[y] > 0}}

\* the tracker holds an item whose title contains paper_id
Held(tr, paper_id) == \E t \in TrackerTitles(tr) : Contains(paper_id, t)

\* responses a GET /issues can give: a status and the listed titles, or a
\* transport exception
ListResponses(tr) ==
  {[status |-> HTTP_OK, raised |-> FALSE, titles |-> ts] :
      ts \in SUBSET TrackerTitles(tr)}
  \cup {[status |-> 403, raised |-> FALSE, titles |-> {}],
        [status |-> 0, raised |-> TRUE, titles |-> {}]}

\* the response that lists the tracker's current items
AccurateResponse(tr) ==
  [status |-> HTTP_OK, raised |-> FALSE, titles |-> TrackerTitles(tr)]

\* the tracker has created the issue exactly when it answers 201
IssueCreated(resp) == ~resp.raised /\ resp.status = HTTP_CREATED

\* responses a POST /issues can give
CreateResponses ==
  {[status |-> HTTP_CREATED, raised |-> FALSE],
   [status |-> 422, raised |-> FALSE],
   [status |-> 0, raised |-> TRUE]}

\* --------------------------------------------------------- the state file
NoFile == [kind |-> "none", ids |-> {}]
CorruptFile == [kind |-> "corrupt", ids |-> {}]
StateFile(s) == [kind |-> "ok", ids |-> s]

\* identifiers a reader of the file finds in it
Persisted(f) == IF f.kind = "ok" THEN f.ids ELSE {}

\* ------------------------------------------------------------ log records
\* out holds the lines run() prints; the diagnostics the helpers print on
\* their except branches are not kept.
Msg(m, n) == [msg |-> m, n |-> n]

\* -------------------------------------------------------------- functions

\* _init_google_sheets: TRUE for the service, FALSE for None (the except
\* branch)
InitGoogleSheets(keyOk) == keyOk

\* a load that forgets what the file holds
LoadStateForgets(f, ioError) ==
  IF f.kind = "none" THEN [ids |-> {}, how |-> "missing"]
  ELSE IF f.kind = "corrupt" \/ ioError
       THEN [ids |-> {}, how |-> "error"]
       ELSE [ids |-> {}, how |-> "read"]

\* _load_state: the processed ids; ioError says that opening or parsing an
\* existing file raises
LoadState(f, ioError) ==
  IF f.kind = "none" THEN [ids |-> {}, how |-> "missing"]
  ELSE IF f.kind = "corrupt" \/ ioError
       THEN [ids |-> {}, how |-> "error"]
       ELSE [ids |-> f.ids, how |-> "read"]

\* a save that writes the list without this run's additions
SaveStateStale(f, ids, failure) ==
  IF failure = "no" THEN [file |-> StateFile(Persisted(f)), how |-> "ok"]
  ELSE IF failure = "open"
       THEN [file |-> f, how |-> "failed"]
       ELSE [file |-> CorruptFile, how |-> "failed"]

\* _save_state: the file afterwards. failure is "no", "open" (open() raises,
\* file untouched) or "dump" (open() truncated the file, json.dump raises)
SaveState(f, ids, failure) ==
  IF failure = "no" THEN [file |-> StateFile(ids), how |-> "ok"]
  ELSE IF failure = "open"
       THEN [file |-> f, how |-> "failed"]
       ELSE [file |-> CorruptFile, how |-> "failed"]

\* the loop of _get_sheet_data over values[1:]
RECURSIVE ExtractIds(_)
ExtractIds(rows) ==
  IF rows = << >> THEN << >>
  ELSE LET row == Head(rows)
           rest == ExtractIds(Tail(rows))
       IN IF row # << >> /\ Strip(row[1]) # << >>
          THEN <<Strip(row[1])>> \o rest
          ELSE rest

\* _get_sheet_data: outcome is "ok", "HttpError" or "other" (an exception
\* that is not an HttpError, which the except clause does not catch)
GetSheetData(outcome, values) ==
  IF outcome = "HttpError" THEN [raises |-> FALSE, ids |-> << >>]
  ELSE IF outcome = "other" THEN [raises |-> TRUE, ids |-> << >>]
  ELSE IF values = << >> THEN [raises |-> FALSE, ids |-> << >>]
  ELSE [raises |-> FALSE, ids |-> ExtractIds(Tail(values))]

\* what a call of _get_sheet_data can come back with, by outcome
SheetOutcomes ==
  [o \in {"ok", "HttpError", "other"} |-> {GetSheetData(o, v) : v \in Sheets}]

\* a check that never finds an issue
CheckExistingIssuesBlind(paper_id, resp) == FALSE

\* _check_existing_issues
CheckExistingIssues(paper_id, resp) ==
  IF resp.raised THEN FALSE
  ELSE /\ resp.status = HTTP_OK
       /\ \E t \in resp.titles : Contains(paper_id, t)

\* a create that reports success for every response it receives
CreateGithubIssueAnyStatus(paper_id, resp) == ~resp.raised

\* a create that reports success whatever happens
CreateGithubIssueAlways(paper_id, resp) == TRUE

\* _create_github_issue
CreateGithubIssue(paper_id, resp) ==
  IF resp.raised THEN FALSE ELSE resp.status = HTTP_CREATED

\* a run that does not stop on an empty fetch
NoPaperIdsNever(ids) == FALSE

\* run(): if not current_paper_ids
NoPaperIds(ids) == ids = << >>

\* ------------------------------------------------------------ environment
\* What the file system and the two remote services may do to a call.
Faulty ==
  [key |-> BOOLEAN, load |-> BOOLEAN, fetch |-> {"ok", "HttpError", "other"},
   list |-> "any", create |-> CreateResponses, save |-> {"no", "open", "dump"}]

\* The remote services answer and every list response is accurate; only the
\* read of the state file may fail.
Benign ==
  [key |-> {TRUE}, load |-> BOOLEAN, fetch |-> {"ok"}, list |-> "accurate",
   create |-> {[status |-> HTTP_CREATED, raised |-> FALSE]}, save |-> {"no"}]

\* ------------------------------------------------------------------ state
VARIABLES
  state_file,          \* sheet_state.json
  tracker,             \* issues of the repository, by identifier
  pc,                  \* position of each invocation
  sheets_service,      \* self.sheets_service is not None
  processed_ids,       \* run(): processed_ids
  current_paper_ids,   \* run(): current_paper_ids
  idx,                 \* run(): position of the for loop
  new_issues_created,  \* run(): new_issues_created
  out,                 \* what run() printed
  lastCheck,           \* existence check of the iteration: response, result
  hist,                \* per invocation: what it loaded, which ids it
                       \* checked, found, tried to create, and had created
  prevOk,              \* ids of the previous invocation, if it was a success
                       \* and no two invocations have overlapped
  pending,             \* identifiers left unseen by a failed create
  overlapped,          \* two invocations have been active at once
  accCreates           \* creates made after an accurate 'absent' check

vars == <<state_file, tracker, pc, sheets_service, processed_ids,
          current_paper_ids, idx, new_issues_created, out, lastCheck, hist,
          prevOk, pending, overlapped, accCreates>>

shared == <<state_file, tracker>>
history == <<prevOk, pending, overlapped, accCreates>>

NoCheck ==
  [id |-> << >>, status |-> 0, raised |-> FALSE, titles |-> {},
   accurate |-> FALSE, exists |-> FALSE]

NoHist ==
  [load |-> "none", loaded |-> {}, checked |-> {}, found |-> {},
   tried |-> {}, made |-> {}, saved |-> "no"]

Active(p) == pc[p] \in {"load", "fetch", "loop", "create"}

\* identifiers of the invocation that were not loaded, whose every check
\* said absent and whose every create failed
Failed(p) ==
  {x \in hist[p].tried : x \notin hist[p].found /\ x \notin hist[p].made
                         /\ x \notin hist[p].loaded}

\* the invocation ran to the end, saved, and every create it sent succeeded
Success(p) ==
  /\ pc[p] = "done"
  /\ hist[p].saved = "ok"
  /\ hist[p].tried = hist[p].made

Init ==
  /\ state_file = NoFile
  /\ tracker = [x \in Ids |-> 0]
  /\ pc = [p \in Procs |-> "idle"]
  /\ sheets_service = [p \in Procs |-> FALSE]
  /\ processed_ids = [p \in Procs |-> {}]
  /\ current_paper_ids = [p \in Procs |-> << >>]
  /\ idx = [p \in Procs |-> 1]
  /\ new_issues_created = [p \in Procs |-> 0]
  /\ out = [p \in Procs |-> << >>]
  /\ lastCheck = [p \in Procs |-> NoCheck]
  /\ hist = [p \in Procs |-> NoHist]
  /\ prevOk = {}
  /\ pending = {}
  /\ overlapped = FALSE
  /\ accCreates = [x \in Ids |-> 0]

\* ---------------------------------------------------------------- actions

\* __main__: monitor = SheetMonitor(), a new invocation of the script, and
\* run() up to the test of self.sheets_service
Main(p, e) ==
  /\ pc[p] \in {"idle", "done", "crashed"}
  /\ \A x \in Ids : tracker[x] < MaxIssues
  /\ \E keyOk \in e.key :
       LET service == InitGoogleSheets(keyOk) IN
       /\ sheets_service' = [sheets_service EXCEPT ![p] = service]
       /\ IF service
          THEN /\ out' = [out EXCEPT ![p] = <<Msg("Starting", 0)>>]
               /\ pc' = [pc EXCEPT ![p] = "load"]
          ELSE /\ out' = [out EXCEPT ![p] =
                            <<Msg("Starting", 0), Msg("Failed to initialize", 0)>>]
               /\ pc' = [pc EXCEPT ![p] = "done"]
  /\ processed_ids' = [processed_ids EXCEPT ![p] = {}]
  /\ current_paper_ids' = [current_paper_ids EXCEPT ![p] = << >>]
  /\ idx' = [idx EXCEPT ![p] = 1]
  /\ new_issues_created' = [new_issues_created EXCEPT ![p] = 0]
  /\ lastCheck' = [lastCheck EXCEPT ![p] = NoCheck]
  /\ hist' = [hist EXCEPT ![p] = NoHist]
  /\ overlapped' = (overlapped \/ \E q \in Procs \ {p} : Active(q))
  /\ prevOk' = IF Success(p) /\ ~overlapped'
               THEN Range(current_paper_ids[p])
               ELSE {}
  /\ pending' = IF pc[p] = "done" /\ hist[p].saved = "ok"
                THEN (pending \ Range(current_paper_ids[p])) \cup Failed(p)
                ELSE pending
  /\ UNCHANGED <<shared, accCreates>>

\* run(): state = self._load_state(); processed_ids = set(...)
RunLoadState(p, e) ==
  /\ pc[p] = "load"
  /\ \E ioError \in e.load :
       LET r == LoadState(state_file, ioError) IN
       /\ processed_ids' = [processed_ids EXCEPT ![p] = r.ids]
       /\ hist' = [hist EXCEPT ![p].load = r.how, ![p].loaded = r.ids]
  /\ pc' = [pc EXCEPT ![p] = "fetch"]
  /\ UNCHANGED <<shared, sheets_service, current_paper_ids, idx,
                 new_issues_created, out, lastCheck, history>>

\* run(): current_paper_ids = self._get_sheet_data() and the test for empty
RunGetSheetData(p, e) ==
  /\ pc[p] = "fetch"
  /\ \E o \in e.fetch : \E r \in SheetOutcomes[o] :
       IF r.raises
       THEN /\ pc' = [pc EXCEPT ![p] = "crashed"]
            /\ UNCHANGED <<current_paper_ids, out>>
       ELSE /\ current_paper_ids' = [current_paper_ids EXCEPT ![p] = r.ids]
            /\ IF NoPaperIds(r.ids)
               THEN /\ out' = [out EXCEPT ![p] =
                                 @ \o <<Msg("No paper IDs found", 0)>>]
                    /\ pc' = [pc EXCEPT ![p] = "done"]
               ELSE /\ out' = [out EXCEPT ![p] =
                                 @ \o <<Msg("Found", Len(r.ids))>>]
                    /\ pc' = [pc EXCEPT ![p] = "loop"]
  /\ UNCHANGED <<shared, sheets_service, processed_ids, idx,
                 new_issues_created, lastCheck, hist, history>>

\* run(): an iteration of the for loop whose paper_id is in processed_ids
RunSkip(p, e) ==
  /\ pc[p] = "loop"
  /\ idx[p] <= Len(current_paper_ids[p])
  /\ current_paper_ids[p][idx[p]] \in processed_ids[p]
  /\ idx' = [idx EXCEPT ![p] = @ + 1]
  /\ lastCheck' = [lastCheck EXCEPT ![p] = NoCheck]
  /\ UNCHANGED <<shared, pc, sheets_service, processed_ids,
                 current_paper_ids, new_issues_created, out, hist, history>>

\* run(): self._check_existing_issues(paper_id) and, when it holds, the
\* else branch
RunCheck(p, e) ==
  /\ pc[p] = "loop"
  /\ idx[p] <= Len(current_paper_ids[p])
  /\ LET paper_id == current_paper_ids[p][idx[p]] IN
     /\ paper_id \notin processed_ids[p]
     /\ \E resp \in IF e.list = "any" THEN ListResponses(tracker)
                     ELSE {AccurateResponse(tracker)} :
          LET exists == CheckExistingIssues(paper_id, resp) IN
          /\ lastCheck' = [lastCheck EXCEPT ![p] =
               [id |-> paper_id, status |-> resp.status,
                raised |-> resp.raised, titles |-> resp.titles,
                accurate |-> /\ ~resp.raised
                             /\ resp.status = HTTP_OK
                             /\ resp.titles = TrackerTitles(tracker),
                exists |-> exists]]
          /\ IF exists
             THEN /\ out' = [out EXCEPT ![p] =
                               @ \o <<Msg("Issue already exists", 0)>>]
                  /\ processed_ids' = [processed_ids EXCEPT ![p] =
                                         @ \cup {paper_id}]
                  /\ idx' = [idx EXCEPT ![p] = @ + 1]
                  /\ hist' = [hist EXCEPT ![p].checked = @ \cup {paper_id},
                                          ![p].found = @ \cup {paper_id}]
                  /\ UNCHANGED pc
             ELSE /\ pc' = [pc EXCEPT ![p] = "create"]
                  /\ hist' = [hist EXCEPT ![p].checked = @ \cup {paper_id}]
                  /\ UNCHANGED <<processed_ids, idx, out>>
  /\ UNCHANGED <<shared, sheets_service, current_paper_ids,
                 new_issues_created, history>>

\* run(): self._create_github_issue(paper_id) and the body of its if
RunCreate(p, e) ==
  /\ pc[p] = "create"
  /\ LET paper_id == current_paper_ids[p][idx[p]] IN
     \E resp \in e.create :
       /\ IF IssueCreated(resp)
          THEN /\ tracker' = [tracker EXCEPT ![paper_id] = @ + 1]
               /\ hist' = [hist EXCEPT ![p].tried = @ \cup {paper_id},
                                       ![p].made = @ \cup {paper_id}]
               /\ accCreates' = IF lastCheck[p].accurate
                                THEN [accCreates EXCEPT ![paper_id] = @ + 1]
                                ELSE accCreates
          ELSE /\ hist' = [hist EXCEPT ![p].tried = @ \cup {paper_id}]
               /\ UNCHANGED <<tracker, accCreates>>
       /\ IF CreateGithubIssue(paper_id, resp)
          THEN /\ new_issues_created' =
                    [new_issues_created EXCEPT ![p] = @ + 1]
               /\ processed_ids' = [processed_ids EXCEPT ![p] =
                                      @ \cup {paper_id}]
          ELSE UNCHANGED <<new_issues_created, processed_ids>>
  /\ idx' = [idx EXCEPT ![p] = @ + 1]
  /\ pc' = [pc EXCEPT ![p] = "loop"]
  /\ lastCheck' = [lastCheck EXCEPT ![p] = NoCheck]
  /\ UNCHANGED <<state_file, sheets_service, current_paper_ids, out,
                 prevOk, pending, overlapped>>

\* run(): the for loop is exhausted; self._save_state(state) and the summary
RunSaveState(p, e) ==
  /\ pc[p] = "loop"
  /\ idx[p] > Len(current_paper_ids[p])
  /\ \E failure \in e.save :
       LET r == SaveState(state_file, processed_ids[p], failure) IN
       /\ state_file' = r.file
       /\ hist' = [hist EXCEPT ![p].saved = r.how]
  /\ out' = [out EXCEPT ![p] =
               @ \o <<Msg("Monitoring complete", new_issues_created[p])>>]
  /\ pc' = [pc EXCEPT ![p] = "done"]
  /\ lastCheck' = [lastCheck EXCEPT ![p] = NoCheck]
  /\ UNCHANGED <<tracker, sheets_service, processed_ids, current_paper_ids,
                 idx, new_issues_created, history>>

Step(p, e) ==
  \/ Main(p, e)
  \/ RunLoadState(p, e)
  \/ RunGetSheetData(p, e)
  \/ RunSkip(p, e)
  \/ RunCheck(p, e)
  \/ RunCreate(p, e)
  \/ RunSaveState(p, e)

\* the intended deployment: one invocation at a time
Next == Step(1, Faulty)

Spec == Init /\ [][Next]_vars

\* two invocations that may overlap, in the benign environment
NextOverlap == \E p \in Procs : Step(p, Benign)

SpecOverlap == Init /\ [][NextOverlap]_vars

\* ------------------------------------------------------------ properties

\* the identifier of the iteration the invocation is in
Current(p) == current_paper_ids[p][idx[p]]

\* the invocation went through the reconcile loop and its save
Completed(p) == pc[p] = "done" /\ hist[p].saved # "no"

\* the invocation ended before the reconcile loop: service not initialized,
\* fetch failed, or no identifier fetched
EarlyAbort(p) ==
  \/ pc[p] = "crashed"
  \/ pc[p] = "done" /\ current_paper_ids[p] = << >>

Printed(p, m) == \E i \in 1..Len(out[p]) : out[p][i].msg = m

\* C1: with serialized runs, a create request is never sent for X while the
\* tracker holds an item whose title contains X, whenever the existence
\* check before it got a 200 response listing the tracker's current items.
\* pc = "create" is the state from which the request is sent.
C1_NoCreateForHeldId ==
  \A p \in Procs :
    (pc[p] = "create" /\ lastCheck[p].accurate)
      => ~Held(tracker, Current(p))

\* C1 witness: the state was loaded as empty though an issue exists, the
\* identifier is listed a second time in the sheet, and its create is about
\* to be sent after an accurate check
C1_Witness ==
  \E p \in Procs :
    /\ pc[p] = "create"
    /\ lastCheck[p].accurate
    /\ hist[p].load = "error"
    /\ \E x \in Ids : tracker[x] > 0
    /\ \E i \in 1..(idx[p] - 1) : current_paper_ids[p][i] = Current(p)

\* C2 (as claimed): every step leaves the persisted set a superset of what
\* it was
C2_SeenSetMonotone ==
  [][Persisted(state_file) \subseteq Persisted(state_file')]_vars

C4_RetryOnCreateFailure ==
  \A p \in Procs :
    Completed(p) =>
      /\ \A x \in Failed(p) :
           /\ x \notin processed_ids[p]
           /\ hist[p].saved = "ok" => x \notin Persisted(state_file)
      /\ \A x \in pending \cap Range(current_paper_ids[p]) :
           /\ x \in hist[p].checked
           /\ x \notin hist[p].found => x \in hist[p].tried

\* C4 witness: an identifier left by a failed create was fetched again and
\* this time created
C4_Witness ==
  \E p \in Procs :
    /\ Completed(p)
    /\ \E x \in pending \cap Range(current_paper_ids[p]) :
         x \in hist[p].made

\* C5 (as claimed): after a run that saved, every fetched identifier that
\* was not loaded is in the file
C5_SeenRegardlessOfOutcome ==
  \A p \in Procs :
    (pc[p] = "done" /\ hist[p].saved = "ok")
      => \A x \in Range(current_paper_ids[p]) \ hist[p].loaded :
           x \in Persisted(state_file)

\* C5 (amended): after a run that saved, a fetched identifier that was not
\* loaded is in the file exactly when a check found an item for it or a
\* create for it succeeded.
C5_SeenUnlessCreateFailed ==
  \A p \in Procs :
    (pc[p] = "done" /\ hist[p].saved = "ok")
      => \A x \in Range(current_paper_ids[p]) \ hist[p].loaded :
           x \in Persisted(state_file)
             <=> x \in hist[p].found \cup hist[p].made

\* C5 witness: a run saved after one identifier was found, or created, and
\* the create of the other failed
C5_Witness ==
  \E p \in Procs :
    /\ pc[p] = "done" /\ hist[p].saved = "ok"
    /\ Failed(p) # {}
    /\ hist[p].found \cup hist[p].made # {}

\* C6 (as claimed): every run that has returned has logged the count found
\* and the count created
C6_SummaryOnEveryPath ==
  \A p \in Procs :
    pc[p] = "done" => Printed(p, "Found") /\ Printed(p, "Monitoring complete")

\* C6 (amended): a run that fetched at least one identifier logs the count
\* found before the loop and the count created as its last line; a run that
\* returned early logs its abort message and no count.
C6_SummaryOnCompletion ==
  \A p \in Procs :
    pc[p] = "done" =>
      IF current_paper_ids[p] = << >>
      THEN /\ ~Printed(p, "Found")
           /\ ~Printed(p, "Monitoring complete")
           /\ out[p][Len(out[p])].msg
                \in {"Failed to initialize", "No paper IDs found"}
      ELSE /\ out[p][2] = Msg("Found", Len(current_paper_ids[p]))
           /\ out[p][Len(out[p])]
                = Msg("Monitoring complete", Cardinality(hist[p].made))

\* C6 witness: a run that created both identifiers has returned
C6_Witness ==
  \E p \in Procs : pc[p] = "done" /\ hist[p].made = Ids

\* C7: every step of a run that is before its loop, or that ends it early,
\* leaves the state file and the tracker as they were, and a run that ended
\* early has sent no check, no create and has not written the file.
C7_EarlyAbortFrame ==
  [][\A p \in Procs :
       (pc'[p] \in {"load", "fetch"} \/ EarlyAbort(p)')
         => /\ state_file' = state_file
            /\ tracker' = tracker
            /\ hist'[p].checked = {}
            /\ hist'[p].tried = {}
            /\ hist'[p].saved = "no"]_vars

\* C7 witness: with identifiers persisted, a run whose service initialized
\* returned early on an empty fetch
C7_Witness ==
  \E p \in Procs :
    /\ EarlyAbort(p) /\ pc[p] = "done"
    /\ sheets_service[p]
    /\ Persisted(state_file) # {}

\* C8 (as claimed): no run ends in an uncaught exception
C8_NoFailurePropagates == \A p \in Procs : pc[p] # "crashed"

\* C9: two issues for the same identifier, each created after a check that
\* accurately reported absent, exist only if two runs overlapped.
C9_DoubleCreateOnlyByOverlap ==
  \A x \in Ids : accCreates[x] >= 2 => overlapped

\* C9 witness: both runs loaded a set without X, both checks were accurate,
\* and both created X
C9_Witness ==
  \E x \in Ids :
    /\ accCreates[x] = 2
    /\ tracker[x] = 2
    /\ \A p \in Procs : x \notin hist[p].loaded /\ x \in hist[p].made

\* 'Paper Review: P10'
TitleP10 ==
  <<"P", "a", "p", "e", "r", " ", "R", "e", "v", "i", "e", "w", ":", " ",
    "P", "1", "0">>

\* C10: the check reports exists exactly when the response is a 200 and a
\* listed title contains the identifier; a listed 'Paper Review: P10' makes
\* the check for P1 report exists; after exists the run marks the identifier
\* seen and moves on without a create, after absent it goes to the create.
C10_ExistenceCheck ==
  \A p \in Procs :
    LET c == lastCheck[p] IN
    c.id # << >> =>
      /\ c.exists <=> /\ ~c.raised
                      /\ c.status = 200
                      /\ \E t \in c.titles : Contains(c.id, t)
      /\ (c.id = <<"P", "1">> /\ c.status = 200 /\ TitleP10 \in c.titles)
           => c.exists
      /\ c.exists => /\ pc[p] = "loop"
                     /\ c.id \in processed_ids[p]
                     /\ current_paper_ids[p][idx[p] - 1] = c.id
      /\ ~c.exists => /\ pc[p] = "create"
                      /\ Current(p) = c.id
                      /\ c.id \notin processed_ids[p]

\* C10 witness: only 'Paper Review: P10' exists, and the check for P1 said
\* exists: P1 is marked seen and no create was sent for it
C10_Witness ==
  \E p \in Procs :
    /\ lastCheck[p].id = P1
    /\ lastCheck[p].exists
    /\ lastCheck[p].titles = {TitleP10}
    /\ tracker[P1] = 0
    /\ P1 \in processed_ids[p]
    /\ P1 \notin hist[p].tried
====
